---- MODULE Spec2Model ----
(***************************************************************************)
(* A model of go-minhash: MinHash sketches (cardinality.go), the signature *)
(* estimators (part_001, cardinality.go, iface.go) and the b-bit           *)
(* similarity (minwise.go).                                                *)
(*                                                                         *)
(* Machine words are WordBits wide instead of 64: every uint64 operation   *)
(* is taken modulo Modulus = 2^WordBits and infinity is the all-ones word. *)
(* Slices live in a heap (a sequence of arrays, the address is the index), *)
(* so that two holders of the same []uint64 share its cells as in Go.      *)
(* Go's 0-based slot i is index i+1 of the TLA+ sequence.                  *)
(***************************************************************************)
EXTENDS Integers, Sequences

\* ------------------------------------------------------------- bounds
WordBits == 3
MaxLen == 2
MaxElem == 1
MaxXs == 2
LogScale == 1000

Modulus == 2 ^ WordBits
infinity == Modulus - 1
Word == 0 .. infinity
Elems == 0 .. MaxElem
SketchIds == {"m1", "m2"}
Nil == "nil"
\* the address of the array a caller of NewMinHashFromSignature keeps
CallerAddr == "caller"
Addrs == SketchIds \cup {CallerAddr}
Lengths == 0 .. MaxLen

\* The hash functions are injected and opaque. Three deterministic ones stand
\* for them: the constant 0 of TestPush, len(bs)+1 of the dummy h1 (an element
\* x is a byte slice of length x), and a spreading function with large values.
HashFunc(name, x) ==
  CASE name = "zero" -> 0
    [] name = "len" -> (x + 1) % Modulus
    [] name = "mix" -> (infinity - 3 * x) % Modulus

Families == { <<"zero", "zero">>, <<"mix", "len">> }

\* New(length) uses the package's default pair of hash functions.
DefaultFamily == <<"mix", "len">>

\* Signatures a caller hands to NewMinHashFromSignature: every signature over
\* the two excluded words (0 and infinity), the literals of the tests, and a
\* few with a middle value.
ExtVals == {0, infinity}
TestSigs == { <<1, 2>>, <<1, 3>>, <<1, 2, 3>>, <<0, 3, 1>> }
MidSigs == { <<3>>, <<3, 0>>, <<0, 3>>, <<3, 3>> }
ExtSigs ==
  UNION { [1 .. k -> ExtVals] : k \in Lengths }
    \cup { t \in TestSigs \cup MidSigs : Len(t) <= MaxLen }

\* what the caller puts in, and later writes to, the array it keeps
AliasVals == {1, infinity}
AliasSigs == UNION { [1 .. k -> AliasVals] : k \in Lengths }

\* signatures whose slots differ in the low bit, in the next bit, or not at all
BbitVals == {0, 1, 2}
BbitSigs == UNION { [1 .. k -> BbitVals] : k \in Lengths }

VARIABLES
  heap,   \* heap[a]: the []uint64 at address a; a sketch's own array has its id as address
  sk,     \* sk[s]: the MinHash struct s (mins is an address, Nil before construction)
  elems,  \* ghost: the elements pushed into s or into the sketches merged into s,
          \*        kept while pure[s]
  pure,   \* ghost: s was created empty and merged only with such sketches of its family
  last,   \* the last call and what it returned
  caller, \* the address of the array the caller holds, Nil if it holds none
  origin, \* ghost: origin[t] is the address of the array sketch t was copied from
  packed, \* packed[s]: the b-bit signature last computed from sketch s, and its b
  par     \* the run of the parallel MinWise.Sketch

vars == <<heap, sk, elems, pure, last, caller, origin, packed, par>>

\* ------------------------------------------------------------- helpers
minSwapped(x, y) == IF x <= y THEN y ELSE x

min(x, y) == IF x <= y THEN x ELSE y

emptySetSignature(size) == [i \in 1 .. size |-> infinity]

RECURSIVE unionLoop(_, _, _, _)
unionLoop(s, r, res, i) ==
  IF i > Len(s) THEN res
  ELSE unionLoop(s, r, [res EXCEPT ![i] = min(s[i], r[i])], i + 1)

\* union panics on a length mismatch before it allocates the result.
union(s, r) ==
  IF Len(s) # Len(r) THEN [err |-> "panic", sig |-> <<>>]
  ELSE [err |-> "none", sig |-> unionLoop(s, r, [i \in 1 .. Len(s) |-> 0], 1)]

RECURSIVE similarityLoopSkipsLast(_, _, _, _)
similarityLoopSkipsLast(s, r, intersect, i) ==
  IF i >= Len(s) THEN intersect
  ELSE similarityLoopSkipsLast(s, r, IF s[i] = r[i] THEN intersect + 1 ELSE intersect, i + 1)

RECURSIVE similarityLoop(_, _, _, _)
similarityLoop(s, r, intersect, i) ==
  IF i > Len(s) THEN intersect
  ELSE similarityLoop(s, r, IF s[i] = r[i] THEN intersect + 1 ELSE intersect, i + 1)

\* The float64 quotient intersect/len(s) is kept as the pair (n, d); d = 0 is
\* the quotient 0/0, NaN.
similarity(s, r) ==
  IF Len(s) # Len(r) THEN [err |-> "panic", n |-> 0, d |-> 1]
  ELSE [err |-> "none", n |-> similarityLoop(s, r, 0, 1), d |-> Len(s)]

\* -math.Log(float64(d)/float64(infinity)) in fixed point, LogScale units per
\* 1.0: ln(M/d) as the sum of 1/j for j in d+1..M.
RECURSIVE NegLog(_)
NegLog(d) == IF d >= infinity THEN 0 ELSE LogScale \div (d + 1) + NegLog(d + 1)

RECURSIVE cardinalitySum(_, _, _)
cardinalitySum(sig, sum, i) ==
  IF i > Len(sig) THEN sum
  ELSE LET d == infinity - sig[i]
       IN  IF d = 0 \/ d = infinity
           THEN cardinalitySum(sig, sum, i + 1)
           ELSE cardinalitySum(sig, sum + NegLog(d), i + 1)

\* Without the sum != 0.0 guard the quotient is +Inf, which int() turns into
\* the least int.
cardinalityNoGuard(sig) ==
  LET sum == cardinalitySum(sig, 0, 1)
  IN  IF sum # 0 THEN (Len(sig) * LogScale) \div sum ELSE -(Modulus \div 2)

cardinality(sig) ==
  LET sum == cardinalitySum(sig, 0, 1)
  IN  IF sum # 0 THEN (Len(sig) * LogScale) \div sum ELSE 0

RECURSIVE isEmptyLoopFirstOnly(_, _)
isEmptyLoopFirstOnly(sig, i) ==
  IF i > Len(sig) THEN TRUE
  ELSE IF sig[i] < infinity THEN FALSE
  ELSE TRUE

RECURSIVE isEmptyLoop(_, _)
isEmptyLoop(sig, i) ==
  IF i > Len(sig) THEN TRUE
  ELSE IF sig[i] < infinity THEN FALSE
  ELSE isEmptyLoop(sig, i + 1)

IsEmpty(sig) == isEmptyLoop(sig, 1)

\* ------------------------------------------------------------- estimators
Cardinality(sig) == cardinality(sig)

UnionCardinality(s1, s2) ==
  LET u == union(s1, s2)
  IN  IF u.err # "none" THEN [err |-> u.err, n |-> 0]
      ELSE [err |-> "none", n |-> cardinality(u.sig)]

IntersectionCardinalityNoFloor(s1, s2) ==
  LET c1 == Cardinality(s1)
      c2 == Cardinality(s2)
      u == UnionCardinality(s1, s2)
      est0 == c1 + c2 - u.n
      est2 == IF est0 > c1 THEN c1 ELSE est0
      est3 == IF est2 > c2 THEN c2 ELSE est2
  IN  IF u.err # "none" THEN u ELSE [err |-> "none", n |-> est3]

IntersectionCardinality(s1, s2) ==
  LET c1 == Cardinality(s1)
      c2 == Cardinality(s2)
      u == UnionCardinality(s1, s2)
      est0 == c1 + c2 - u.n
      est1 == IF est0 < 0 THEN 0 ELSE est0
      est2 == IF est1 > c1 THEN c1 ELSE est1
      est3 == IF est2 > c2 THEN c2 ELSE est2
  IN  IF u.err # "none" THEN u ELSE [err |-> "none", n |-> est3]

SymmetricDifferenceCardinality(s1, s2) ==
  LET u == UnionCardinality(s1, s2)
      x == IntersectionCardinality(s1, s2)
      est == u.n - x.n
  IN  IF u.err # "none" THEN u
      ELSE [err |-> "none", n |-> IF est < 0 THEN 0 ELSE est]

LessCardinality(s1, s2) ==
  LET x == IntersectionCardinality(s1, s2)
      est == Cardinality(s1) - x.n
  IN  IF x.err # "none" THEN x
      ELSE [err |-> "none", n |-> IF est < 0 THEN 0 ELSE est]

Similarity(s1, s2) == similarity(s1, s2)

\* ------------------------------------------------------------- b-bit similarity
RECURSIVE BitAnd(_, _)
BitAnd(x, y) ==
  IF x = 0 \/ y = 0 THEN 0
  ELSE 2 * BitAnd(x \div 2, y \div 2) + (IF x % 2 = 1 /\ y % 2 = 1 THEN 1 ELSE 0)

\* uint64(1<<b) - 1
BbitMask(b) == (((2 ^ b) % Modulus) + Modulus - 1) % Modulus

\* The inner loop of SimilarityBbit on one pair of words: acc = <<intersect, count>>.
RECURSIVE bbitWord(_, _, _, _, _)
bbitWord(w1, w2, b, bits, acc) ==
  IF bits < b THEN acc
  ELSE LET v1 == BitAnd(w1, BbitMask(b))
           v2 == BitAnd(w2, BbitMask(b))
       IN  bbitWord(w1 \div (2 ^ b), w2 \div (2 ^ b), b, bits - b,
                    <<IF v1 = v2 THEN acc[1] + 1 ELSE acc[1], acc[2] + 1>>)

RECURSIVE bbitLoop(_, _, _, _, _)
bbitLoop(sig1, sig2, b, i, acc) ==
  IF i > Len(sig1) THEN acc
  ELSE bbitLoop(sig1, sig2, b, i + 1, bbitWord(sig1[i], sig2[i], b, WordBits, acc))

SimilarityBbit(sig1, sig2, b) ==
  IF Len(sig1) # Len(sig2) THEN [err |-> "panic", n |-> 0, d |-> 1]
  ELSE LET acc == bbitLoop(sig1, sig2, b, 1, <<0, 0>>)
       IN  [err |-> "none", n |-> acc[1], d |-> acc[2]]

RECURSIVE BitOr(_, _)
BitOr(x, y) ==
  IF x = 0 THEN y
  ELSE IF y = 0 THEN x
  ELSE 2 * BitOr(x \div 2, y \div 2) + (IF x % 2 = 1 \/ y % 2 = 1 THEN 1 ELSE 0)

\* w << b on a word: the bits shifted past the top are lost
ShiftLeft(w, b) == (w * (2 ^ b)) % Modulus

\* The loop of SignatureBbit over the slots from i on: sig the words appended
\* so far, w the current word, bits the bits free in it.
RECURSIVE signatureBbitLoop(_, _, _, _, _, _)
signatureBbitLoop(minimums, b, i, sig, w, bits) ==
  IF i > Len(minimums) THEN [sig |-> sig, w |-> w, bits |-> bits]
  ELSE IF bits >= b
       THEN signatureBbitLoop(minimums, b, i + 1, sig,
              BitOr(ShiftLeft(w, b), BitAnd(minimums[i], BbitMask(b))), bits - b)
       ELSE signatureBbitLoop(minimums, b, i + 1, Append(sig, w), 0, WordBits)

\* SignatureBbit without the append of the last, partly filled word
signatureBbitNoLastWord(minimums, b) ==
  signatureBbitLoop(minimums, b, 1, <<>>, 0, WordBits).sig

SignatureBbit(minimums, b) ==
  LET r == signatureBbitLoop(minimums, b, 1, <<>>, 0, WordBits)
  IN  IF r.bits # WordBits THEN Append(r.sig, r.w) ELSE r.sig

\* ------------------------------------------------------------- MinHash
NoSketch == [mins |-> Nil, h1 |-> "none", h2 |-> "none"]

Constructed(s) == sk[s].mins # Nil
Signature(s) == heap[sk[s].mins]

hbOneBased(v1, v2, i) == (v1 + (((i + 1) * v2) % Modulus)) % Modulus

\* hb := v1 + uint64(i)*v2, i the 0-based slot
hb(v1, v2, i) == (v1 + ((i * v2) % Modulus)) % Modulus

RECURSIVE pushLoopNoZeroCheck(_, _, _, _)
pushLoopNoZeroCheck(mins, v1, v2, j) ==
  IF j > Len(mins) THEN mins
  ELSE LET c == hb(v1, v2, j - 1)
       IN  IF c < mins[j]
           THEN pushLoopNoZeroCheck([mins EXCEPT ![j] = c], v1, v2, j + 1)
           ELSE pushLoopNoZeroCheck(mins, v1, v2, j + 1)

RECURSIVE pushLoop(_, _, _, _)
pushLoop(mins, v1, v2, j) ==
  IF j > Len(mins) THEN mins
  ELSE LET c == hb(v1, v2, j - 1)
       IN  IF 0 < c /\ c < mins[j]
           THEN pushLoop([mins EXCEPT ![j] = c], v1, v2, j + 1)
           ELSE pushLoop(mins, v1, v2, j + 1)

RECURSIVE mergeLoopOverwrite(_, _, _)
mergeLoopOverwrite(mins, other, j) ==
  IF j > Len(other) THEN mins
  ELSE mergeLoopOverwrite([mins EXCEPT ![j] = other[j]], other, j + 1)

RECURSIVE mergeLoopMax(_, _, _)
mergeLoopMax(mins, other, j) ==
  IF j > Len(other) THEN mins
  ELSE IF other[j] > mins[j]
       THEN mergeLoopMax([mins EXCEPT ![j] = other[j]], other, j + 1)
       ELSE mergeLoopMax(mins, other, j + 1)

RECURSIVE mergeLoop(_, _, _)
mergeLoop(mins, other, j) ==
  IF j > Len(other) THEN mins
  ELSE IF other[j] < mins[j]
       THEN mergeLoop([mins EXCEPT ![j] = other[j]], other, j + 1)
       ELSE mergeLoop(mins, other, j + 1)

\* csig := make([]uint64, len(sig)); copy(csig, sig)
csig(sig) == [i \in 1 .. Len(sig) |-> sig[i]]

\* a constructor that keeps the argument's array instead of its copy
newMinsKeepsArgument(src, fresh) == src

\* The array the struct built by NewMinHashFromSignature names in mins: csig,
\* freshly made, and not the argument sig (at address src).
newMins(src, fresh) == fresh

Rec(op, a, b, x, err, n, d) ==
  [op |-> op, a |-> a, b |-> b, x |-> x, err |-> err, n |-> n, d |-> d]

\* no run of Sketch is under way
NoPar ==
  [pc |-> "idle", xs |-> <<>>, h1s |-> <<>>, h2s |-> <<>>, mins |-> <<>>,
   i |-> 0, m |-> 0, j |-> <<>>]

NoPacked == [b |-> 0, words |-> <<>>]

Init ==
  /\ heap = [a \in Addrs |-> <<>>]
  /\ sk = [s \in SketchIds |-> NoSketch]
  /\ elems = [s \in SketchIds |-> {}]
  /\ pure = [s \in SketchIds |-> FALSE]
  /\ last = Rec("init", Nil, Nil, 0, "none", 0, 1)
  /\ caller = Nil
  /\ origin = [s \in SketchIds |-> Nil]
  /\ packed = [s \in SketchIds |-> NoPacked]
  /\ par = NoPar

NewMinHash(s, fam, size) ==
  /\ ~Constructed(s)
  /\ heap' = [heap EXCEPT ![s] = emptySetSignature(size)]
  /\ sk' = [sk EXCEPT ![s] = [mins |-> s, h1 |-> fam[1], h2 |-> fam[2]]]
  /\ elems' = [elems EXCEPT ![s] = {}]
  /\ pure' = [pure EXCEPT ![s] = TRUE]
  /\ last' = Rec("NewMinHash", s, Nil, size, "none", 0, 1)
  /\ UNCHANGED <<caller, origin, packed, par>>

\* s := NewMinHashFromSignature(h1, h2, []uint64{...}): the argument is a
\* literal the caller does not keep.
NewMinHashFromSignature(s, fam, sig) ==
  /\ ~Constructed(s)
  /\ heap' = [heap EXCEPT ![s] = csig(sig)]
  /\ sk' = [sk EXCEPT ![s] = [mins |-> s, h1 |-> fam[1], h2 |-> fam[2]]]
  /\ elems' = [elems EXCEPT ![s] = {}]
  /\ pure' = [pure EXCEPT ![s] = FALSE]
  /\ last' = Rec("NewMinHashFromSignature", s, Nil, 0, "none", 0, 1)
  /\ UNCHANGED <<caller, origin, packed, par>>

\* t := s.Copy(): what it does to the heap and to the struct t
CopyInto(s, t) ==
  /\ Constructed(s)
  /\ ~Constructed(t)
  /\ heap' = [heap EXCEPT ![t] = csig(Signature(s))]
  /\ sk' = [sk EXCEPT ![t] = [mins |-> newMins(sk[s].mins, t),
                               h1 |-> sk[s].h1, h2 |-> sk[s].h2]]
  /\ elems' = [elems EXCEPT ![t] = elems[s]]
  /\ pure' = [pure EXCEPT ![t] = pure[s]]
  /\ last' = Rec("Copy", s, t, 0, "none", 0, 1)

\* t := s.Copy()
Copy(s, t) == CopyInto(s, t) /\ UNCHANGED <<caller, origin, packed, par>>

\* sig := []uint64{...}: the caller makes an array and keeps it
CallerMake(sig) ==
  /\ caller = Nil
  /\ caller' = CallerAddr
  /\ heap' = [heap EXCEPT ![CallerAddr] = sig]
  /\ last' = Rec("CallerMake", Nil, Nil, 0, "none", 0, 1)
  /\ UNCHANGED <<sk, elems, pure, origin, packed, par>>

\* sig[i] = v (i counted from 1 here), by the caller on the array it keeps
CallerWrite(i, v) ==
  /\ caller # Nil
  /\ i \in 1 .. Len(heap[caller])
  /\ heap' = [heap EXCEPT ![caller][i] = v]
  /\ last' = Rec("CallerWrite", Nil, Nil, i, "none", v, 1)
  /\ UNCHANGED <<sk, elems, pure, caller, origin, packed, par>>

\* s := NewMinHashFromSignature(h1, h2, sig), sig the array the caller keeps
NewMinHashFromSignatureKept(s, fam) ==
  /\ caller # Nil
  /\ ~Constructed(s)
  /\ heap' = [heap EXCEPT ![s] = csig(heap[caller])]
  /\ sk' = [sk EXCEPT ![s] = [mins |-> newMins(caller, s),
                               h1 |-> fam[1], h2 |-> fam[2]]]
  /\ elems' = [elems EXCEPT ![s] = {}]
  /\ pure' = [pure EXCEPT ![s] = FALSE]
  /\ origin' = [origin EXCEPT ![s] = caller]
  /\ last' = Rec("NewMinHashFromSignature", s, Nil, 0, "none", 0, 1)
  /\ UNCHANGED <<caller, packed, par>>

\* t := s.Copy(), remembering which array was copied
CopyOf(s, t) ==
  /\ CopyInto(s, t)
  /\ origin' = [origin EXCEPT ![t] = sk[s].mins]
  /\ UNCHANGED <<caller, packed, par>>

PushBytes(s, x) ==
  /\ Constructed(s)
  /\ LET v1 == HashFunc(sk[s].h1, x)
         v2 == HashFunc(sk[s].h2, x)
     IN  heap' = [heap EXCEPT ![sk[s].mins] = pushLoop(@, v1, v2, 1)]
  /\ elems' = [elems EXCEPT ![s] = IF pure[s] THEN @ \cup {x} ELSE {}]
  /\ last' = Rec("PushBytes", s, Nil, x, "none", 0, 1)
  /\ UNCHANGED <<sk, pure, caller, origin, packed, par>>

SameFamily(s, t) == sk[s].h1 = sk[t].h1 /\ sk[s].h2 = sk[t].h2

MergeShorterOk(s, t) ==
  /\ Constructed(s)
  /\ Constructed(t)
  /\ IF Len(Signature(s)) < Len(Signature(t))
     THEN /\ last' = Rec("Merge", s, t, 0, "error", 0, 1)
          /\ UNCHANGED <<heap, sk, elems, pure>>
     ELSE /\ heap' = [heap EXCEPT ![sk[s].mins] = mergeLoop(@, Signature(t), 1)]
          /\ pure' = [pure EXCEPT ![s] = @ /\ pure[t] /\ SameFamily(s, t)]
          /\ elems' = [elems EXCEPT ![s] = IF pure'[s] THEN @ \cup elems[t] ELSE {}]
          /\ last' = Rec("Merge", s, t, 0, "none", 0, 1)
          /\ UNCHANGED sk
  /\ UNCHANGED <<caller, origin, packed, par>>

Merge(s, t) ==
  /\ Constructed(s)
  /\ Constructed(t)
  /\ IF Len(Signature(s)) # Len(Signature(t))
     THEN /\ last' = Rec("Merge", s, t, 0, "error", 0, 1)
          /\ UNCHANGED <<heap, sk, elems, pure>>
     ELSE /\ heap' = [heap EXCEPT ![sk[s].mins] = mergeLoop(@, Signature(t), 1)]
          /\ pure' = [pure EXCEPT ![s] = @ /\ pure[t] /\ SameFamily(s, t)]
          /\ elems' = [elems EXCEPT ![s] = IF pure'[s] THEN @ \cup elems[t] ELSE {}]
          /\ last' = Rec("Merge", s, t, 0, "none", 0, 1)
          /\ UNCHANGED sk
  /\ UNCHANGED <<caller, origin, packed, par>>

\* ------------------------------------------------------------- queries
Query(rec) ==
  /\ last' = rec
  /\ UNCHANGED <<heap, sk, elems, pure, caller, origin, packed, par>>

DoIsEmpty(s) ==
  /\ Constructed(s)
  /\ Query(Rec("IsEmpty", s, Nil, 0, "none", IF IsEmpty(Signature(s)) THEN 1 ELSE 0, 1))

DoCardinality(s) ==
  /\ Constructed(s)
  /\ Query(Rec("Cardinality", s, Nil, 0, "none", Cardinality(Signature(s)), 1))

DoSimilarity(s, t) ==
  /\ Constructed(s) /\ Constructed(t)
  /\ LET r == Similarity(Signature(s), Signature(t))
     IN  Query(Rec("Similarity", s, t, 0, r.err, r.n, r.d))

DoUnionCardinality(s, t) ==
  /\ Constructed(s) /\ Constructed(t)
  /\ LET r == UnionCardinality(Signature(s), Signature(t))
     IN  Query(Rec("UnionCardinality", s, t, 0, r.err, r.n, 1))

DoIntersectionCardinality(s, t) ==
  /\ Constructed(s) /\ Constructed(t)
  /\ LET r == IntersectionCardinality(Signature(s), Signature(t))
     IN  Query(Rec("IntersectionCardinality", s, t, 0, r.err, r.n, 1))

DoSymmetricDifferenceCardinality(s, t) ==
  /\ Constructed(s) /\ Constructed(t)
  /\ LET r == SymmetricDifferenceCardinality(Signature(s), Signature(t))
     IN  Query(Rec("SymmetricDifferenceCardinality", s, t, 0, r.err, r.n, 1))

DoLessCardinality(s, t) ==
  /\ Constructed(s) /\ Constructed(t)
  /\ LET r == LessCardinality(Signature(s), Signature(t))
     IN  Query(Rec("LessCardinality", s, t, 0, r.err, r.n, 1))

\* SimilarityBbit(sig1, sig2, b) on the word arrays at addresses a and b.
DoSimilarityBbit(a, b, bb) ==
  /\ Constructed(a) /\ Constructed(b)
  /\ LET r == SimilarityBbit(heap[a], heap[b], bb)
     IN  Query(Rec("SimilarityBbit", a, b, bb, r.err, r.n, r.d))

\* The life of sketches: construction, push, merge, copy.
Next ==
  \/ \E s \in SketchIds, fam \in Families, size \in Lengths : NewMinHash(s, fam, size)
  \/ \E s \in SketchIds, fam \in Families, sig \in ExtSigs : NewMinHashFromSignature(s, fam, sig)
  \/ \E s, t \in SketchIds : Copy(s, t)
  \/ \E s \in SketchIds, x \in Elems : PushBytes(s, x)
  \/ \E s, t \in SketchIds : Merge(s, t)

Spec == Init /\ [][Next]_vars

\* The estimators applied to sketches of given signatures.
NextEst ==
  \/ \E s \in SketchIds, size \in Lengths : NewMinHash(s, DefaultFamily, size)
  \/ \E s \in SketchIds, sig \in ExtSigs : NewMinHashFromSignature(s, DefaultFamily, sig)
  \/ \E s, t \in SketchIds : Merge(s, t)
  \/ \E s \in SketchIds : DoIsEmpty(s)
  \/ \E s \in SketchIds : DoCardinality(s)
  \/ \E s, t \in SketchIds : DoSimilarity(s, t)
  \/ \E s, t \in SketchIds : DoUnionCardinality(s, t)
  \/ \E s, t \in SketchIds : DoIntersectionCardinality(s, t)
  \/ \E s, t \in SketchIds : DoSymmetricDifferenceCardinality(s, t)
  \/ \E s, t \in SketchIds : DoLessCardinality(s, t)
  \/ \E a, b \in SketchIds, bb \in 1 .. WordBits : DoSimilarityBbit(a, b, bb)

SpecEst == Init /\ [][NextEst]_vars

\* ps := s.SignatureBbit(b); the caller keeps the packed array and its b
DoSignatureBbit(s, b) ==
  /\ Constructed(s)
  /\ packed' = [packed EXCEPT ![s] =
                  [b |-> b, words |-> SignatureBbit(Signature(s), b)]]
  /\ last' = Rec("SignatureBbit", s, Nil, b, "none", 0, 1)
  /\ UNCHANGED <<heap, sk, elems, pure, caller, origin, par>>

\* SimilarityBbit(ps, pt, b) on two packed arrays made with the same b
DoSimilarityBbitPacked(s, t) ==
  /\ packed[s].b # 0
  /\ packed[s].b = packed[t].b
  /\ LET r == SimilarityBbit(packed[s].words, packed[t].words, packed[s].b)
     IN  last' = Rec("SimilarityBbitPacked", s, t, packed[s].b, r.err, r.n, r.d)
  /\ UNCHANGED <<heap, sk, elems, pure, packed, caller, origin, par>>

\* Signatures packed to b bits a slot, and the packed arrays compared.
NextBbit ==
  \/ \E s \in SketchIds, sig \in BbitSigs :
       NewMinHashFromSignature(s, DefaultFamily, sig)
  \/ \E s \in SketchIds, b \in 1 .. WordBits : DoSignatureBbit(s, b)
  \/ \E s, t \in SketchIds : DoSimilarityBbitPacked(s, t)

SpecBbit == Init /\ [][NextBbit]_vars

\* -------------------------------------------- the parallel MinWise.Sketch
\* defaultSignature(size): its definition is not among the sources; size
\* slots of infinity, the signature of the empty set.
defaultSignature(size) == [i \in 1 .. size |-> infinity]

\* the input sets of Sketch, as the sequences it ranges over
Sets == UNION { [1 .. n -> Elems] : n \in 0 .. MaxXs }

NotPar == <<heap, sk, elems, pure, last, caller, origin, packed>>

\* Sketch(xs) up to the loop that starts the workers: mins, h1s, h2s, wg.Add
SketchBegin(fam, size, xs) ==
  /\ par.pc \in {"idle", "done"}
  /\ par' = [pc |-> "spawn", xs |-> xs,
             h1s |-> [k \in 1 .. Len(xs) |-> HashFunc(fam[1], xs[k])],
             h2s |-> [k \in 1 .. Len(xs) |-> HashFunc(fam[2], xs[k])],
             mins |-> defaultSignature(size),
             i |-> 1, m |-> 0, j |-> [w \in 1 .. size |-> 0]]
  /\ UNCHANGED NotPar

\* One turn of "for i, m := range mins": m takes the value of the slot and
\* the worker of the slot is started; after the last slot, wg.Wait().
SketchSpawn ==
  /\ par.pc = "spawn"
  /\ IF par.i > Len(par.mins)
     THEN par' = [par EXCEPT !.pc = "wait"]
     ELSE par' = [par EXCEPT !.m = par.mins[par.i], !.j[par.i] = 1, !.i = @ + 1]
  /\ UNCHANGED NotPar

\* One turn of "for j := range xs" in the worker of slot w (0-based w - 1):
\* hx is compared with m, the loop variable of the starting loop.
SketchWorker(w) ==
  /\ par.pc \in {"spawn", "wait"}
  /\ w \in 1 .. Len(par.mins)
  /\ par.j[w] \in 1 .. Len(par.xs)
  /\ LET hx == hb(par.h1s[par.j[w]], par.h2s[par.j[w]], w - 1)
     IN  par' = [par EXCEPT !.mins[w] = IF hx < par.m THEN hx ELSE @,
                            !.j[w] = @ + 1]
  /\ UNCHANGED NotPar

WorkerDone(w) == par.j[w] = Len(par.xs) + 1

\* wg.Wait() returns once every worker has called wg.Done(); return mins
SketchReturn ==
  /\ par.pc = "wait"
  /\ \A w \in 1 .. Len(par.mins) : WorkerDone(w)
  /\ par' = [par EXCEPT !.pc = "done"]
  /\ UNCHANGED NotPar

NextPar ==
  \/ \E fam \in Families, size \in Lengths, xs \in Sets : SketchBegin(fam, size, xs)
  \/ SketchSpawn
  \/ \E w \in 1 .. MaxLen : SketchWorker(w)
  \/ SketchReturn

SpecPar == Init /\ [][NextPar]_vars

\* Sketches next to the arrays and sketches they were built from.
NextAlias ==
  \/ \E sig \in AliasSigs : CallerMake(sig)
  \/ \E i \in 1 .. MaxLen, v \in AliasVals : CallerWrite(i, v)
  \/ \E s \in SketchIds : NewMinHashFromSignatureKept(s, DefaultFamily)
  \/ \E s, t \in SketchIds : CopyOf(s, t)
  \/ \E s \in SketchIds, size \in Lengths : NewMinHash(s, DefaultFamily, size)
  \/ \E s \in SketchIds, x \in Elems : PushBytes(s, x)
  \/ \E s, t \in SketchIds : Merge(s, t)

SpecAlias == Init /\ [][NextAlias]_vars

\* ------------------------------------------------------------- properties
SigAfter(s) == heap'[sk'[s].mins]
Slots(s) == 1 .. Len(Signature(s))
MinOf(S) == CHOOSE m \in S : \A y \in S : m <= y
NumMatch(A, B) == Len(SelectSeq([j \in 1 .. Len(A) |-> A[j] = B[j]], LAMBDA t : t))
SlotMin(A, B) == [j \in 1 .. Len(A) |-> IF A[j] <= B[j] THEN A[j] ELSE B[j]]
Clamp(x, lo, hi) == IF x < lo THEN lo ELSE IF x > hi THEN hi ELSE x
\* the i-th derived hash of x under the family of sketch s (i 0-based)
Candidate(s, x, i) == (HashFunc(sk[s].h1, x) + i * HashFunc(sk[s].h2, x)) % Modulus

PushWritesCandidate ==
  \A s \in SketchIds :
    (last'.op = "PushBytes" /\ last'.a = s) =>
      /\ Len(SigAfter(s)) = Len(Signature(s))
      /\ \A j \in Slots(s) :
           LET c == Candidate(s, last'.x, j - 1)
           IN  SigAfter(s)[j] = IF 0 < c /\ c < Signature(s)[j] THEN c ELSE Signature(s)[j]

ZeroFamilyStaysEmpty ==
  \A s \in SketchIds :
    (Constructed(s) /\ pure[s] /\ sk[s].h1 = "zero" /\ sk[s].h2 = "zero") =>
      /\ \A j \in Slots(s) : Signature(s)[j] = infinity
      /\ IsEmpty(Signature(s))

\* C1: a push sets slot i to candidate = (h1(x) + i*h2(x)) mod 2^w exactly when
\* 0 < candidate < old slot i and leaves it otherwise; with hash functions that
\* always return 0, a sketch created empty stays all-infinity and IsEmpty.
C1_PushWritesCandidate == [][PushWritesCandidate /\ ZeroFamilyStaysEmpty']_vars

\* A push that wrote one slot and skipped a slot whose candidate was 0.
C1_Witness ==
  /\ last.op = "PushBytes"
  /\ \E j, z \in Slots(last.a) :
       /\ Candidate(last.a, last.x, z - 1) = 0
       /\ Signature(last.a)[z] # 0
       /\ Candidate(last.a, last.x, j - 1) = Signature(last.a)[j]
       /\ Signature(last.a)[j] < infinity

C3_SlotsNonIncreasing ==
  [][\A s \in SketchIds :
       Constructed(s) =>
         /\ Len(SigAfter(s)) = Len(Signature(s))
         /\ \A j \in Slots(s) : SigAfter(s)[j] <= Signature(s)[j]]_vars

\* A merge into a sketch created empty that lowered a slot.
C3_Witness ==
  /\ last.op = "Merge" /\ last.err = "none"
  /\ pure[last.a] /\ elems[last.a] # {}
  /\ \E j \in Slots(last.a) : Signature(last.a)[j] < infinity

\* C4 as stated: no step of push or merge turns a non-zero slot into 0.
C4_NeverAssignsZero ==
  [][\A s \in SketchIds :
       Constructed(s) =>
         \A j \in Slots(s) : Signature(s)[j] # 0 => SigAfter(s)[j] # 0]_vars

\* C4 amended: a push never assigns 0; a slot becomes 0 only in a merge, and
\* only where the argument's signature holds 0; a sketch created empty and
\* merged only with such sketches holds no 0.
C4_ZeroOnlyFromMergedZero ==
  [][\A s \in SketchIds :
       /\ Constructed(s) =>
            \A j \in Slots(s) :
              (Signature(s)[j] # 0 /\ SigAfter(s)[j] = 0) =>
                /\ last'.op = "Merge" /\ last'.a = s /\ last'.err = "none"
                /\ Signature(last'.b)[j] = 0
       /\ (Constructed(s)' /\ pure'[s]) =>
            \A j \in 1 .. Len(SigAfter(s)) : SigAfter(s)[j] # 0]_vars

\* A merge after which the receiver and the argument both hold 0 in a slot,
\* the receiver holding a non-zero value elsewhere.
C4_Witness ==
  /\ last.op = "Merge" /\ last.err = "none" /\ last.a # last.b
  /\ \E j, i \in Slots(last.a) :
       /\ Signature(last.a)[j] = 0 /\ Signature(last.b)[j] = 0
       /\ Signature(last.a)[i] # 0 /\ Signature(last.a)[i] < infinity

MergeIsSlotMin ==
  \A s, t \in SketchIds :
    (last'.op = "Merge" /\ last'.err = "none" /\ last'.a = s /\ last'.b = t) =>
      LET A == Signature(s)
          B == Signature(t)
      IN  /\ SigAfter(s) = SlotMin(A, B)
          /\ SigAfter(s) = union(A, B).sig
          /\ mergeLoop(B, A, 1) = SigAfter(s)
          /\ mergeLoop(A, A, 1) = A
          /\ mergeLoop(SigAfter(s), B, 1) = SigAfter(s)

\* C5: a merge sets every slot of the receiver to min(A[i], B[i]), the result
\* of union(sigA, sigB); merging is commutative and idempotent on signatures.
C5_MergeIsMin == [][MergeIsSlotMin]_vars

\* A merge that took at least one slot from the argument and kept another.
C5_Witness ==
  /\ last.op = "Merge" /\ last.err = "none" /\ last.a # last.b
  /\ \E j, i \in Slots(last.a) :
       /\ Signature(last.a)[j] = Signature(last.b)[j]
       /\ Signature(last.a)[j] < infinity
       /\ Signature(last.a)[i] < Signature(last.b)[i]

BinaryOps ==
  { "Similarity", "Merge", "UnionCardinality", "IntersectionCardinality",
    "SymmetricDifferenceCardinality", "LessCardinality", "SimilarityBbit" }

MismatchFails ==
  (last.op \in BinaryOps /\ Len(Signature(last.a)) # Len(Signature(last.b))) =>
    /\ last.err \in {"error", "panic"}
    /\ last.n = 0 /\ last.d = 1

FailedMergeFrame ==
  (last'.op = "Merge" /\ last'.err # "none") => (heap' = heap /\ sk' = sk)

\* C6: Similarity, Merge, UnionCardinality, the estimators built on it and
\* SimilarityBbit fail on operands of unequal length and return no result; a
\* failed Merge leaves both signatures as they were.
C6_SizeMismatchFails == [][MismatchFails' /\ FailedMergeFrame]_vars

\* A Merge of a longer sketch with a shorter one that failed.
C6_Witness ==
  /\ last.op = "Merge" /\ last.err = "error"
  /\ Len(Signature(last.a)) > Len(Signature(last.b))
  /\ Len(Signature(last.b)) > 0
  /\ \E j \in Slots(last.b) : Signature(last.b)[j] < Signature(last.a)[j]

SimilarityIs(lengths) ==
  (last.op = "Similarity" /\ Len(Signature(last.a)) = Len(Signature(last.b))
     /\ Len(Signature(last.a)) \in lengths) =>
    LET A == Signature(last.a)
        B == Signature(last.b)
        back == similarity(B, A)
    IN  /\ last.err = "none"
        /\ last.d > 0
        /\ last.n * Len(A) = NumMatch(A, B) * last.d
        /\ 0 <= last.n /\ last.n <= last.d
        /\ back.err = "none" /\ back.n * last.d = last.n * back.d
        /\ (A = B => last.n = last.d)
        /\ (A = <<1, 2>> /\ B = <<1, 3>> => 2 * last.n = last.d)

\* C7 as stated: for any two signatures of equal length Similarity is the
\* number of equal slots over the length, in [0,1], symmetric, 1 on equal
\* signatures and 0.5 on {1,2} against {1,3}.
C7_SimilarityAnyLength == SimilarityIs(Lengths)

\* C7 amended: the same for signatures of equal length k >= 1.
C7_SimilarityNonEmpty == SimilarityIs(Lengths \ {0})

\* Similarity of the signatures {1,2} and {1,3} returned 1/2.
C7_Witness ==
  /\ last.op = "Similarity" /\ last.err = "none"
  /\ Signature(last.a) = <<1, 2>> /\ Signature(last.b) = <<1, 3>>
  /\ last.n = 1 /\ last.d = 2

\* C8: Cardinality is 0 for a signature whose slots are all 0 or infinity, so
\* for the empty-set signature and the all-zero signature of every length.
C8_ExcludedSlotsGiveZero ==
  /\ (last.op = "Cardinality"
        /\ \A j \in Slots(last.a) : Signature(last.a)[j] \in {0, infinity}) =>
       last.n = 0
  /\ \A k \in Lengths :
       /\ cardinality(emptySetSignature(k)) = 0
       /\ cardinality([j \in 1 .. k |-> 0]) = 0

\* Cardinality returned 0 for a signature mixing a 0 slot and an infinity slot.
C8_Witness ==
  /\ last.op = "Cardinality" /\ last.n = 0
  /\ \E j, i \in Slots(last.a) :
       Signature(last.a)[j] = 0 /\ Signature(last.a)[i] = infinity

\* C9: IsEmpty is true exactly when every slot is infinity: true for a sketch
\* just created empty, false for the all-zero signature.
C9_IsEmptyIffAllInfinity ==
  /\ last.op = "IsEmpty" =>
       ((last.n = 1) <=> \A j \in Slots(last.a) : Signature(last.a)[j] = infinity)
  /\ last.op = "NewMinHash" => IsEmpty(Signature(last.a))
  /\ \A k \in Lengths \ {0} : ~IsEmpty([j \in 1 .. k |-> 0])

\* IsEmpty returned false for a signature whose first slot is infinity.
C9_Witness ==
  /\ last.op = "IsEmpty" /\ last.n = 0
  /\ Len(Signature(last.a)) > 1
  /\ Signature(last.a)[1] = infinity

ClampedEstimate(A, B) ==
  LET c1 == cardinality(A)
      c2 == cardinality(B)
      u == cardinality(SlotMin(A, B))
  IN  Clamp(c1 + c2 - u, 0, IF c1 <= c2 THEN c1 ELSE c2)

\* C10: IntersectionCardinality is cardinality(A) + cardinality(B) - union
\* clamped into [0, min of the two], union being the cardinality of the
\* slot-wise minimum; SymmetricDifferenceCardinality is max(0, union -
\* intersection), LessCardinality is max(0, cardinality(A) - intersection);
\* none is negative.
C10_SetEstimators ==
  (last.op \in {"IntersectionCardinality", "SymmetricDifferenceCardinality",
                "LessCardinality"}
     /\ Len(Signature(last.a)) = Len(Signature(last.b))) =>
    LET A == Signature(last.a)
        B == Signature(last.b)
        u == cardinality(SlotMin(A, B))
        x == ClampedEstimate(A, B)
    IN  /\ last.err = "none"
        /\ last.n >= 0
        /\ last.op = "IntersectionCardinality" => last.n = x
        /\ last.op = "SymmetricDifferenceCardinality" =>
             last.n = IF u - x < 0 THEN 0 ELSE u - x
        /\ last.op = "LessCardinality" =>
             last.n = IF cardinality(A) - x < 0 THEN 0 ELSE cardinality(A) - x

\* IntersectionCardinality on signatures whose estimate
\* cardinality(A) + cardinality(B) - union is negative.
C10_Witness ==
  /\ last.op = "IntersectionCardinality" /\ last.err = "none"
  /\ cardinality(Signature(last.a)) + cardinality(Signature(last.b))
       < cardinality(SlotMin(Signature(last.a), Signature(last.b)))
  /\ last.n = 0

\* ------------------------------------------------------------------ C11
\* The array a sketch was built from: the caller's array, or the signature
\* of the sketch it is a copy of.
SourceUnchanged(t) == heap'[origin[t]] = heap[origin[t]]
SketchUnchanged(t) == SigAfter(t) = Signature(t)
OnOriginal(t) ==
  /\ last'.a \in SketchIds
  /\ last'.a # t
  /\ sk[last'.a].mins = origin[t]

DefensiveCopy ==
  \A t \in SketchIds :
    origin[t] # Nil =>
      /\ (last'.op \in {"PushBytes", "Merge"} /\ last'.a = t)
           => SourceUnchanged(t)
      /\ last'.op = "CallerWrite" => SketchUnchanged(t)
      /\ (last'.op \in {"PushBytes", "Merge"} /\ OnOriginal(t))
           => SketchUnchanged(t)

\* C11: a sketch built by NewMinHashFromSignature(sig) or by Copy() owns its
\* array: a push or merge on it leaves the caller's array, respectively the
\* original sketch's signature, unchanged, and a write to the caller's array
\* or a push or merge on the original leaves its signature unchanged.
C11_DefensiveCopy == [][DefensiveCopy]_vars

\* a push has changed a sketch built from the caller's array, a push has
\* changed the original of a copy, and the two sides differ
C11_Witness ==
  \E t, u \in SketchIds :
    /\ origin[t] = CallerAddr
    /\ origin[u] = t
    /\ last.op = "PushBytes"
    /\ last.a = t
    /\ Signature(t) # heap[CallerAddr]
    /\ Signature(u) # Signature(t)

\* ------------------------------------------------------------------ C12
\* The packing the claim describes, from slot i on: a slot that does not fit
\* the current word goes, after the flush, into the fresh word.
RECURSIVE PackEverySlot(_, _, _, _, _, _)
PackEverySlot(minimums, b, i, sig, w, bits) ==
  IF i > Len(minimums) THEN (IF bits # WordBits THEN Append(sig, w) ELSE sig)
  ELSE LET field == BitAnd(minimums[i], BbitMask(b))
       IN  IF bits >= b
           THEN PackEverySlot(minimums, b, i + 1, sig,
                              BitOr(ShiftLeft(w, b), field), bits - b)
           ELSE PackEverySlot(minimums, b, i + 1, Append(sig, w),
                              field, WordBits - b)

CeilDiv(n, d) == (n + d - 1) \div d

\* C12: SignatureBbit packs the low b bits of every slot, in slot order and
\* most significant first, into words; a slot that finds fewer than b bits
\* free goes into the fresh word after the flush, so that no slot is dropped
\* and the output has ceil(k*b/w) words, w the word width.
C12_PacksEverySlot ==
  \A s \in SketchIds :
    packed[s].b # 0 =>
      /\ packed[s].words =
           PackEverySlot(Signature(s), packed[s].b, 1, <<>>, 0, WordBits)
      /\ Len(packed[s].words) =
           CeilDiv(Len(Signature(s)) * packed[s].b, WordBits)

\* ------------------------------------------------------------------ C13
Divides(b, n) == n % b = 0

\* the result of SimilarityBbit on the packed arrays of two sketches that
\* hold the same signature, packed with a b that divides the word width
RoundTrip ==
  /\ last.op = "SimilarityBbitPacked"
  /\ Signature(last.a) = Signature(last.b)
  /\ Divides(last.x, WordBits)

IsOne == last.err = "none" /\ last.d # 0 /\ last.n = last.d

\* C13 as stated: for every signature A and every b dividing the word width,
\* SimilarityBbit(SignatureBbit(A, b), SignatureBbit(A, b), b) is 1.0.
C13_RoundTrip == RoundTrip => IsOne

\* C13, amended: for every signature A of length at least 1 and every b
\* dividing the word width, SimilarityBbit(SignatureBbit(A, b),
\* SignatureBbit(A, b), b) is 1.0: at least one field is compared and every
\* compared field matches.
C13_RoundTripNonEmpty ==
  (RoundTrip /\ Len(Signature(last.a)) >= 1) => IsOne

\* two sketches with the same signature of full length, packed and compared
C13_Witness ==
  /\ RoundTrip
  /\ last.a # last.b
  /\ Len(Signature(last.a)) = MaxLen
  /\ last.x = WordBits
  /\ IsOne

\* ------------------------------------------------------------------ C15
\* slots i in which A and B agree in their low b bits
AgreeLowBits(A, B, b) ==
  Len(SelectSeq([i \in 1 .. Len(A) |->
                  BitAnd(A[i], BbitMask(b)) = BitAnd(B[i], BbitMask(b))],
                LAMBDA e : e))

\* the packed arrays of two signatures of equal length k >= 1 were compared
PackedCompared ==
  /\ last.op = "SimilarityBbitPacked"
  /\ Len(Signature(last.a)) = Len(Signature(last.b))
  /\ Len(Signature(last.a)) >= 1

\* C15: for signatures A and B of equal length k >= 1 and 1 <= b <= w,
\* SimilarityBbit(SignatureBbit(A, b), SignatureBbit(B, b), b) is the number
\* of slots in which A and B agree in their low b bits, divided by k: the
\* fields compared are exactly the k packed slots.
C15_SimilarityOfPackedSlots ==
  PackedCompared =>
    /\ last.err = "none"
    /\ last.d = Len(Signature(last.a))
    /\ last.n = AgreeLowBits(Signature(last.a), Signature(last.b), last.x)

\* ------------------------------------------------------------------ C14
RECURSIVE MinOver(_, _, _, _)
MinOver(h1s, h2s, i, k) ==
  IF k > Len(h1s) THEN infinity
  ELSE LET rest == MinOver(h1s, h2s, i, k + 1)
           hx == (h1s[k] + i * h2s[k]) % Modulus
       IN  IF hx < rest THEN hx ELSE rest

\* C14: the signature Sketch returns, under every interleaving of its
\* workers, has in slot i the minimum over infinity and all inputs x of
\* (h1(x) + i*h2(x)) mod 2^w, h1 and h2 of every input having been computed
\* before the workers start and every worker having finished.
C14_ParallelSketchIsMin ==
  par.pc = "done" =>
    /\ \A w \in 1 .. Len(par.mins) : WorkerDone(w)
    /\ \A w \in 1 .. Len(par.mins) :
         par.mins[w] = MinOver(par.h1s, par.h2s, w - 1, 1)

TypeOK ==
  /\ \A a \in Addrs : \A i \in 1 .. Len(heap[a]) : heap[a][i] \in Word
  /\ \A s \in SketchIds : sk[s].mins \in Addrs \cup {Nil}
====
